---- MODULE Spec2Model ----
(***************************************************************************)
(* MIDI-RS: the MIDI event decoder and tempo-aware timing engine           *)
(* (src/midi/parser.rs).  One behaviour is one call of parse_file: the     *)
(* file is read, the container is decoded into tracks of delta-tick        *)
(* events, every track is paired into notes and the notes are merged and   *)
(* sorted.                                                                 *)
(*                                                                         *)
(* Times (f32/f64 seconds in the code) are integers in microseconds.  The  *)
(* inputs are chosen so that every float operation of the code is exact    *)
(* on them (deltas are multiples of the ticks-per-beat resolution, tempi   *)
(* are 500000 and 250000 microseconds per beat, i.e. 0.5 and 0.25 s).      *)
(* The two non-finite floats the code can produce with a resolution of 0   *)
(* ticks per beat are the values NaN and PosInf below.                     *)
(***************************************************************************)
EXTENDS Integers, Sequences, FiniteSets, TLC

\* Bounds of the model: events in the whole file, tracks in the file.
MaxEvents == 3
MaxTracks == 2

\* Program constants.
DefaultTempo == 500000
DefaultMinDuration == 1000
UnclosedDuration == 100000

\* Non-finite f64/f32 values, outside the range of the finite times of the
\* model (|x| < 2 * 10^9 microseconds).
NaN == 2147483647
PosInf == 2147483646
NegInf == -2147483647

IsFinite(x) == x # NaN /\ x # PosInf /\ x # NegInf

----------------------------------------------------------------------------
\* Float arithmetic as the code uses it.

FAdd(a, b) ==
    IF a = NaN \/ b = NaN THEN NaN
    ELSE IF a = PosInf THEN (IF b = NegInf THEN NaN ELSE PosInf)
    ELSE IF a = NegInf THEN (IF b = PosInf THEN NaN ELSE NegInf)
    ELSE IF b = PosInf \/ b = NegInf THEN b
    ELSE a + b

FNeg(a) ==
    IF a = NaN THEN NaN
    ELSE IF a = PosInf THEN NegInf
    ELSE IF a = NegInf THEN PosInf
    ELSE 0 - a

FSub(a, b) == FAdd(a, FNeg(b))

\* a >= b on floats: false as soon as one side is NaN.
FGe(a, b) ==
    IF a = NaN \/ b = NaN THEN FALSE
    ELSE IF a = PosInf \/ b = NegInf THEN TRUE
    ELSE IF a = NegInf \/ b = PosInf THEN FALSE
    ELSE a >= b

\* partial_cmp(a, b): "None" when one side is NaN.
PartialCmp(a, b) ==
    IF a = NaN \/ b = NaN THEN "None"
    ELSE IF a = b THEN "Equal"
    ELSE IF FGe(a, b) THEN "Greater"
    ELSE "Less"

----------------------------------------------------------------------------
\* Input: header timing, events.

Metrical(tpb) == [kind |-> "Metrical", tpb |-> tpb, fps |-> 0, subframe |-> 0]
Timecode(fps, subframe) ==
    [kind |-> "Timecode", tpb |-> 0, fps |-> fps, subframe |-> subframe]

\* ticks_per_beat from the header
TicksPerBeat(timing) ==
    IF timing.kind = "Metrical" THEN timing.tpb
    ELSE timing.fps * timing.subframe

Ev(delta, kind, pitch, channel, vel, tempo) ==
    [delta |-> delta, kind |-> kind, pitch |-> pitch, channel |-> channel,
     vel |-> vel, tempo |-> tempo]

NoteOn(delta, pitch, channel, vel) == Ev(delta, "NoteOn", pitch, channel, vel, 0)
NoteOff(delta, pitch, channel, vel) == Ev(delta, "NoteOff", pitch, channel, vel, 0)
Tempo(delta, tempo) == Ev(delta, "Tempo", 0, 0, 0, tempo)
\* a channel message other than NoteOn/NoteOff (a controller change)
OtherMidi(delta) == Ev(delta, "OtherMidi", 0, 0, 0, 0)
\* a meta event other than Tempo (a marker, a track name)
OtherMeta(delta) == Ev(delta, "OtherMeta", 0, 0, 0, 0)

Profiles == {"pair", "keys", "tempo", "header", "clock"}

\* The events the decoder may deliver, by input family.
Alphabet(p) ==
    CASE p = "pair" ->
           {NoteOn(d, 60, 0, v) : d \in {0, 480}, v \in {0, 64, 100}}
           \cup {NoteOff(d, 60, 0, 64) : d \in {0, 480}}
      [] p = "keys" ->
           {NoteOn(d, 60, 0, 100) : d \in {0, 480}}
           \cup {NoteOn(d, 72, 1, 64) : d \in {0, 480}}
           \cup {NoteOff(480, 60, 0, 64), NoteOn(480, 72, 1, 0),
                 NoteOff(0, 72, 0, 64), NoteOff(0, 60, 1, 64)}
      [] p = "tempo" ->
           {NoteOn(d, 60, 0, 100) : d \in {0, 480}}
           \cup {NoteOff(d, 60, 0, 64) : d \in {0, 480}}
           \cup {Tempo(d, 250000) : d \in {0, 480}}
           \cup {OtherMidi(480), OtherMeta(480)}
      [] p = "header" ->
           {NoteOn(d, 72, 0, 100) : d \in {0, 480}}
           \cup {NoteOff(480, 72, 0, 64), Tempo(0, 250000)}
      [] p = "clock" ->
           {Tempo(d, t) : d \in {0, 480}, t \in {250000, 125000}}
           \cup {NoteOn(480, 60, 0, 100), NoteOff(480, 60, 0, 64)}

Timings(p) ==
    IF p = "header"
    THEN {Metrical(480), Metrical(0), Timecode(24, 20), Timecode(24, 0)}
    ELSE {Metrical(480)}

MinDurations(p) ==
    IF p = "header" THEN {DefaultMinDuration, 500000} ELSE {DefaultMinDuration}

\* What the file at `path` is: a well-formed Standard MIDI File, one with a
\* malformed chunk or event, bytes that are no Standard MIDI File at all, or
\* a file that cannot be read.
Sources(p) ==
    IF p = "pair" THEN {"smf", "malformed", "not_smf", "unreadable"} ELSE {"smf"}

----------------------------------------------------------------------------
\* Tempo Map Builder (first pass of parse_track)

RECURSIVE TempoPass(_, _, _, _)
TempoPass(track, i, tick, tempo_map) ==
    IF i > Len(track) THEN tempo_map
    ELSE LET t == tick + track[i].delta
         IN TempoPass(track, i + 1, t,
                      IF track[i].kind = "Tempo"
                      THEN Append(tempo_map, <<t, track[i].tempo>>)
                      ELSE tempo_map)

\* (mutant) the map holds the tempo events only, no entry at tick 0
BuildTempoMap_NoDefault(track) == TempoPass(track, 1, 0, <<>>)

\* (mutant) only the deltas of the tempo events advance the tick of the map
RECURSIVE TempoPass_TempoDeltas(_, _, _, _)
TempoPass_TempoDeltas(track, i, tick, tempo_map) ==
    IF i > Len(track) THEN tempo_map
    ELSE IF track[i].kind = "Tempo"
         THEN TempoPass_TempoDeltas(track, i + 1, tick + track[i].delta,
                  Append(tempo_map, <<tick + track[i].delta, track[i].tempo>>))
         ELSE TempoPass_TempoDeltas(track, i + 1, tick, tempo_map)

BuildTempoMap_TempoDeltas(track) ==
    TempoPass_TempoDeltas(track, 1, 0, <<<<0, DefaultTempo>>>>)

BuildTempoMap(track) == TempoPass(track, 1, 0, <<<<0, DefaultTempo>>>>)

\* (mutant) every segment is converted at the default tempo
SegmentSeconds_DefaultTempo(delta_ticks, tempo, tpb) ==
    IF tpb = 0
    THEN (IF delta_ticks = 0 \/ tempo = 0 THEN NaN ELSE PosInf)
    ELSE (delta_ticks * DefaultTempo) \div tpb

\* (delta_ticks as f64 / ticks_per_beat) * (last_tempo / 1_000_000.0)
SegmentSeconds(delta_ticks, tempo, tpb) ==
    IF tpb = 0
    THEN (IF delta_ticks = 0 \/ tempo = 0 THEN NaN ELSE PosInf)
    ELSE (delta_ticks * tempo) \div tpb

\* (mutant) of the entries that share a tick the first one stays in effect
RECURSIVE TtsLoop_FirstAtTickWins(_, _, _, _, _, _, _)
TtsLoop_FirstAtTickWins(tick, tempo_map, tpb, i, seconds, last_tick, last_tempo) ==
    IF i > Len(tempo_map) \/ tempo_map[i][1] > tick
    THEN FAdd(seconds, SegmentSeconds(tick - last_tick, last_tempo, tpb))
    ELSE TtsLoop_FirstAtTickWins(tick, tempo_map, tpb, i + 1,
                 FAdd(seconds,
                      SegmentSeconds(tempo_map[i][1] - last_tick, last_tempo, tpb)),
                 tempo_map[i][1],
                 IF tempo_map[i][1] = last_tick THEN last_tempo
                 ELSE tempo_map[i][2])

RECURSIVE TtsLoop(_, _, _, _, _, _, _)
TtsLoop(tick, tempo_map, tpb, i, seconds, last_tick, last_tempo) ==
    IF i > Len(tempo_map) \/ tempo_map[i][1] > tick
    THEN FAdd(seconds, SegmentSeconds(tick - last_tick, last_tempo, tpb))
    ELSE TtsLoop(tick, tempo_map, tpb, i + 1,
                 FAdd(seconds,
                      SegmentSeconds(tempo_map[i][1] - last_tick, last_tempo, tpb)),
                 tempo_map[i][1], tempo_map[i][2])

\* Tick Clock
TicksToSeconds(tick, tempo_map, tpb) ==
    TtsLoop(tick, tempo_map, tpb, 1, 0, 0, DefaultTempo)

----------------------------------------------------------------------------
\* Note Pairer (second pass of parse_track)

NewNote(pitch, velocity, start_time, duration, channel) ==
    [pitch |-> pitch, velocity |-> velocity, start_time |-> start_time,
     duration |-> duration, channel |-> channel]

\* Note::end_time
EndTime(n) == FAdd(n.start_time, n.duration)

\* HashMap::insert
MapInsert(m, k, v) == [x \in (DOMAIN m) \cup {k} |-> IF x = k THEN v ELSE m[x]]
\* HashMap::remove (the map that is left)
MapRemove(m, k) == [x \in (DOMAIN m) \ {k} |-> m[x]]

EmptyMap == [x \in {} |-> <<0, 0>>]

\* (mutant) a pair below the minimum duration stays in the table
ClosePair_KeepsShort(st, pitch, channel, current_tick, tempo_map, tpb, min_dur) ==
    IF <<pitch, channel>> \in DOMAIN st.active
    THEN LET start_tick == st.active[<<pitch, channel>>][1]
             vel        == st.active[<<pitch, channel>>][2]
             start_time == TicksToSeconds(start_tick, tempo_map, tpb)
             end_time   == TicksToSeconds(current_tick, tempo_map, tpb)
             duration   == FSub(end_time, start_time)
         IN IF FGe(duration, min_dur)
            THEN [active |-> MapRemove(st.active, <<pitch, channel>>),
                  notes  |-> Append(st.notes,
                                    NewNote(pitch, vel, start_time, duration, channel))]
            ELSE st
    ELSE st

\* (mutant) a close of an Idle key emits an empty note at the close
ClosePair_OrphanEmits(st, pitch, channel, current_tick, tempo_map, tpb, min_dur) ==
    IF <<pitch, channel>> \in DOMAIN st.active
    THEN LET start_tick == st.active[<<pitch, channel>>][1]
             vel        == st.active[<<pitch, channel>>][2]
             start_time == TicksToSeconds(start_tick, tempo_map, tpb)
             end_time   == TicksToSeconds(current_tick, tempo_map, tpb)
             duration   == FSub(end_time, start_time)
         IN [active |-> MapRemove(st.active, <<pitch, channel>>),
             notes  |-> IF FGe(duration, min_dur)
                        THEN Append(st.notes,
                                    NewNote(pitch, vel, start_time, duration, channel))
                        ELSE st.notes]
    ELSE [active |-> st.active,
          notes  |-> Append(st.notes,
                            NewNote(pitch, 0,
                                    TicksToSeconds(current_tick, tempo_map, tpb),
                                    0, channel))]

\* (mutant) the table is searched by pitch alone: a close takes the entry of
\* the pitch whatever its channel
ClosePair_PitchOnly(st, pitch, channel, current_tick, tempo_map, tpb, min_dur) ==
    LET hit == {k \in DOMAIN st.active : k[1] = pitch}
    IN IF hit # {}
       THEN LET k == CHOOSE x \in hit : TRUE
                start_time == TicksToSeconds(st.active[k][1], tempo_map, tpb)
                end_time   == TicksToSeconds(current_tick, tempo_map, tpb)
                duration   == FSub(end_time, start_time)
            IN [active |-> MapRemove(st.active, k),
                notes  |-> IF FGe(duration, min_dur)
                           THEN Append(st.notes,
                                       NewNote(pitch, st.active[k][2], start_time,
                                               duration, k[2]))
                           ELSE st.notes]
       ELSE st

\* (mutant) the filter keeps to the default minimum, whatever the parser was
\* built with
ClosePair_DefaultFilter(st, pitch, channel, current_tick, tempo_map, tpb, min_dur) ==
    IF <<pitch, channel>> \in DOMAIN st.active
    THEN LET start_tick == st.active[<<pitch, channel>>][1]
             vel        == st.active[<<pitch, channel>>][2]
             start_time == TicksToSeconds(start_tick, tempo_map, tpb)
             end_time   == TicksToSeconds(current_tick, tempo_map, tpb)
             duration   == FSub(end_time, start_time)
         IN [active |-> MapRemove(st.active, <<pitch, channel>>),
             notes  |-> IF FGe(duration, DefaultMinDuration)
                        THEN Append(st.notes,
                                    NewNote(pitch, vel, start_time, duration, channel))
                        ELSE st.notes]
    ELSE st

\* if let Some((start_tick, vel)) = active_notes.remove(&(pitch, channel)) {..}
ClosePair(st, pitch, channel, current_tick, tempo_map, tpb, min_dur) ==
    IF <<pitch, channel>> \in DOMAIN st.active
    THEN LET start_tick == st.active[<<pitch, channel>>][1]
             vel        == st.active[<<pitch, channel>>][2]
             start_time == TicksToSeconds(start_tick, tempo_map, tpb)
             end_time   == TicksToSeconds(current_tick, tempo_map, tpb)
             duration   == FSub(end_time, start_time)
         IN [active |-> MapRemove(st.active, <<pitch, channel>>),
             notes  |-> IF FGe(duration, min_dur)
                        THEN Append(st.notes,
                                    NewNote(pitch, vel, start_time, duration, channel))
                        ELSE st.notes]
    ELSE st

\* (mutant) velocity >= 0 opens a note: a velocity-0 note-on never closes
OnNoteOn_ZeroOpens(st, ev, current_tick, tempo_map, tpb, min_dur) ==
    [active |-> MapInsert(st.active, <<ev.pitch, ev.channel>>,
                          <<current_tick, ev.vel>>),
     notes  |-> st.notes]

\* (mutant) first note-on wins: an Active entry is not overwritten
OnNoteOn_FirstWins(st, ev, current_tick, tempo_map, tpb, min_dur) ==
    IF ev.vel > 0
    THEN [active |-> IF <<ev.pitch, ev.channel>> \in DOMAIN st.active
                     THEN st.active
                     ELSE MapInsert(st.active, <<ev.pitch, ev.channel>>,
                                    <<current_tick, ev.vel>>),
          notes  |-> st.notes]
    ELSE ClosePair(st, ev.pitch, ev.channel, current_tick, tempo_map, tpb, min_dur)

\* MidiMessage::NoteOn { key, vel }
OnNoteOn(st, ev, current_tick, tempo_map, tpb, min_dur) ==
    IF ev.vel > 0
    THEN [active |-> MapInsert(st.active, <<ev.pitch, ev.channel>>,
                               <<current_tick, ev.vel>>),
          notes  |-> st.notes]
    ELSE ClosePair(st, ev.pitch, ev.channel, current_tick, tempo_map, tpb, min_dur)

\* (mutant) the closing event's velocity is stored in the note
OnNoteOff_ClosingVelocity(st, ev, current_tick, tempo_map, tpb, min_dur) ==
    LET r == ClosePair(st, ev.pitch, ev.channel, current_tick, tempo_map, tpb,
                       min_dur)
    IN IF Len(r.notes) > Len(st.notes)
       THEN [r EXCEPT !.notes[Len(r.notes)].velocity = ev.vel]
       ELSE r

\* MidiMessage::NoteOff { key, .. }
OnNoteOff(st, ev, current_tick, tempo_map, tpb, min_dur) ==
    ClosePair(st, ev.pitch, ev.channel, current_tick, tempo_map, tpb, min_dur)

\* one iteration of the second loop, current_tick already advanced
\* (mutant) an event of another kind empties the table of open notes
PairEvent_OtherClears(st, ev, current_tick, tempo_map, tpb, min_dur) ==
    CASE ev.kind = "NoteOn"  -> OnNoteOn(st, ev, current_tick, tempo_map, tpb, min_dur)
      [] ev.kind = "NoteOff" -> OnNoteOff(st, ev, current_tick, tempo_map, tpb, min_dur)
      [] ev.kind = "Tempo" -> st
      [] OTHER -> [active |-> EmptyMap, notes |-> st.notes]

PairEvent(st, ev, current_tick, tempo_map, tpb, min_dur) ==
    CASE ev.kind = "NoteOn"  -> OnNoteOn(st, ev, current_tick, tempo_map, tpb, min_dur)
      [] ev.kind = "NoteOff" -> OnNoteOff(st, ev, current_tick, tempo_map, tpb, min_dur)
      [] OTHER -> st

\* the second loop over the first n events of a track
RECURSIVE PairLoop(_, _, _, _, _, _, _, _)
PairLoop(track, i, n, st, current_tick, tempo_map, tpb, min_dur) ==
    IF i > n THEN st
    ELSE LET t == current_tick + track[i].delta
         IN PairLoop(track, i + 1, n,
                     PairEvent(st, track[i], t, tempo_map, tpb, min_dur),
                     t, tempo_map, tpb, min_dur)

\* notes and active_notes of parse_track after n events of the second pass
PairPrefix(track, n, tpb, min_dur) ==
    PairLoop(track, 1, n, [active |-> EmptyMap, notes |-> <<>>], 0,
             BuildTempoMap(track), tpb, min_dur)

\* The orders in which `for (..) in active_notes` may visit the table: the
\* iteration order of a std HashMap is unspecified and differs between runs.
IterationOrders(m) ==
    {o \in [1..Cardinality(DOMAIN m) -> DOMAIN m] :
        \A i, j \in DOMAIN o : i # j => o[i] # o[j]}

\* (mutant) the unclosed notes are dropped at the end of the track
FlushNotes_DropsUnclosed(order, active, tempo_map, tpb) == <<>>

\* Handle notes that were never closed
FlushNotes(order, active, tempo_map, tpb) ==
    [i \in DOMAIN order |->
        NewNote(order[i][1], active[order[i]][2],
                TicksToSeconds(active[order[i]][1], tempo_map, tpb),
                UnclosedDuration, order[i][2])]

----------------------------------------------------------------------------
\* Merge & Sort: all_notes.sort_by(|a, b| a.start_time.partial_cmp(..).unwrap())

\* The comparator is called (and unwraps None) once the list has two elements
\* and one start_time is NaN.
SortPanics(s) ==
    Len(s) >= 2 /\ \E i \in DOMAIN s : s[i].start_time = NaN

Front(s) == SubSeq(s, 1, Len(s) - 1)

\* (mutant) an unstable insertion: a note goes before the notes of equal
\* start_time
RECURSIVE InsertStable_TiesFirst(_, _)
InsertStable_TiesFirst(sorted, n) ==
    IF sorted = <<>> THEN <<n>>
    ELSE IF PartialCmp(sorted[Len(sorted)].start_time, n.start_time) = "Less"
         THEN Append(sorted, n)
         ELSE Append(InsertStable_TiesFirst(Front(sorted), n), sorted[Len(sorted)])

RECURSIVE InsertStable(_, _)
InsertStable(sorted, n) ==
    IF sorted = <<>> THEN <<n>>
    ELSE IF PartialCmp(sorted[Len(sorted)].start_time, n.start_time) = "Greater"
         THEN Append(InsertStable(Front(sorted), n), sorted[Len(sorted)])
         ELSE Append(sorted, n)

RECURSIVE SortFrom(_, _, _)
SortFrom(s, i, sorted) ==
    IF i > Len(s) THEN sorted
    ELSE SortFrom(s, i + 1, InsertStable(sorted, s[i]))

\* (mutant) the notes are returned in track order, unsorted
SortNotes_TrackOrder(s) == s

\* the stable sort by start_time
SortNotes(s) == SortFrom(s, 1, <<>>)

\* parse_track as a whole: the note lists it may return for a track, one for
\* each iteration order of the active table
TrackOutcomes(track, tpb, min_dur) ==
    LET st == PairPrefix(track, Len(track), tpb, min_dur)
    IN {st.notes \o FlushNotes(o, st.active, BuildTempoMap(track), tpb) :
           o \in IterationOrders(st.active)}

\* the track loop of parse_bytes over the first i tracks: the values
\* all_notes may have after it
RECURSIVE MergeOutcomes(_, _, _, _)
MergeOutcomes(ts, i, tpb, min_dur) ==
    IF i = 0 THEN {<<>>}
    ELSE {a \o n : a \in MergeOutcomes(ts, i - 1, tpb, min_dur),
                   n \in TrackOutcomes(ts[i], tpb, min_dur)}

\* what parse_bytes gives for a value of all_notes
ReturnOf(a) ==
    IF SortPanics(a) THEN [outcome |-> "panic", notes |-> <<>>]
    ELSE [outcome |-> "Ok", notes |-> SortNotes(a)]

\* what parse_bytes may give for decoded tracks
PossibleReturns(ts, tpb, min_dur) ==
    {ReturnOf(a) : a \in MergeOutcomes(ts, Len(ts), tpb, min_dur)}

----------------------------------------------------------------------------
\* The total duration of a note list and the visibility window of a note.

\* f32::max: the other operand when one is NaN
FMax(a, b) ==
    IF a = NaN THEN b
    ELSE IF b = NaN THEN a
    ELSE IF FGe(a, b) THEN a
    ELSE b

\* x * (pct / 100), for the finite x whose product is exact
FScale(x, pct) == IF IsFinite(x) THEN (x * pct) \div 100 ELSE x

\* Iterator::fold(acc, |a, b| a.max(b)) over the end times from the i-th note on
RECURSIVE FoldMax(_, _, _)
FoldMax(acc, ns, i) ==
    IF i > Len(ns) THEN acc
    ELSE FoldMax(FMax(acc, EndTime(ns[i])), ns, i + 1)

\* the end time of the last note of the list
GetDuration_LastEnd(ns) == IF ns = <<>> THEN 0 ELSE EndTime(ns[Len(ns)])

\* MidiParser::get_duration
GetDuration(ns) == FoldMax(0, ns, 1)

\* a window that leaves its two bounds out
IsVisible_Exclusive(n, current_time, time_window) ==
    LET window_start == FSub(current_time, FScale(time_window, 15))
        window_end == FAdd(current_time, FScale(time_window, 85))
    IN  /\ FGe(window_end, n.start_time) /\ n.start_time # window_end
        /\ FGe(EndTime(n), window_start) /\ EndTime(n) # window_start

\* Note::is_visible
IsVisible(n, current_time, time_window) ==
    LET window_start == FSub(current_time, FScale(time_window, 15))
        window_end == FAdd(current_time, FScale(time_window, 85))
    IN  FGe(window_end, n.start_time) /\ FGe(EndTime(n), window_start)

----------------------------------------------------------------------------
\* MidiPlayer. playback_speed is in hundredths, current_time in microseconds.

MinSpeed == 50
MaxSpeed == 200
SpeedStep == 10

\* f32::clamp: NaN stays NaN
FClamp(x, lo, hi) ==
    IF x = NaN THEN NaN
    ELSE IF ~FGe(x, lo) THEN lo
    ELSE IF ~FGe(hi, x) THEN hi
    ELSE x

\* MidiPlayer::new
NewPlayer == [current_time |-> 0, is_playing |-> FALSE, playback_speed |-> 100]

\* MidiPlayer::play
PlayerPlay(p) == [p EXCEPT !.is_playing = TRUE]
\* MidiPlayer::pause
PlayerPause(p) == [p EXCEPT !.is_playing = FALSE]
\* MidiPlayer::toggle_playback
PlayerTogglePlayback(p) == [p EXCEPT !.is_playing = ~p.is_playing]

\* the speed stored as it comes
PlayerSetPlaybackSpeed_NoClamp(p, speed) == [p EXCEPT !.playback_speed = speed]

\* MidiPlayer::set_playback_speed
PlayerSetPlaybackSpeed(p, speed) ==
    [p EXCEPT !.playback_speed = FClamp(speed, MinSpeed, MaxSpeed)]

\* MidiPlayer::increase_speed
PlayerIncreaseSpeed(p) == PlayerSetPlaybackSpeed(p, FAdd(p.playback_speed, SpeedStep))
\* MidiPlayer::decrease_speed
PlayerDecreaseSpeed(p) == PlayerSetPlaybackSpeed(p, FSub(p.playback_speed, SpeedStep))

\* MidiPlayer::seek
PlayerSeek(p, time) == [p EXCEPT !.current_time = FMax(time, 0)]
\* MidiPlayer::reset
PlayerReset(p) == [p EXCEPT !.current_time = 0, !.is_playing = FALSE]
\* MidiPlayer::update
PlayerUpdate(p, delta_time) ==
    IF p.is_playing
    THEN [p EXCEPT !.current_time =
              FAdd(p.current_time, FScale(delta_time, p.playback_speed))]
    ELSE p

----------------------------------------------------------------------------
\* AppConfig, PerformanceOverlay and the two apply_action functions.
\* particle_density is in hundredths; an Option is <<>> (None) or <<x>>.

\* AppConfig::default
DefaultConfig ==
    [enable_performance_overlay |-> FALSE, slow_mode |-> FALSE,
     frame_lock |-> <<>>, particle_density |-> 100, target_fps |-> 60,
     effect_quality |-> "High"]

\* AppConfig::slow_mode_config
SlowModeConfig ==
    [DefaultConfig EXCEPT !.slow_mode = TRUE, !.frame_lock = <<30>>,
                          !.particle_density = 50]

\* AppConfig::performance_mode_config
PerformanceModeConfig ==
    [DefaultConfig EXCEPT !.slow_mode = FALSE, !.frame_lock = <<144>>,
                          !.effect_quality = "Ultra"]

\* PerformanceOverlay::new
OverlayNew(config) == [visible |-> config.enable_performance_overlay]
\* PerformanceOverlay::toggle
OverlayToggle(overlay) == [overlay EXCEPT !.visible = ~overlay.visible]
\* PerformanceOverlay::is_visible
OverlayIsVisible(overlay) == overlay.visible

\* the arm ToggleOverlay of the two apply_action
ApplyToggleOverlay(st) ==
    LET o == OverlayToggle(st.overlay)
    IN [st EXCEPT !.overlay = o,
                  !.config.enable_performance_overlay = OverlayIsVisible(o)]

\* the arm ToggleSlowMode of the two apply_action
ApplyToggleSlowMode(st) ==
    LET slow == ~st.config.slow_mode
    IN [st EXCEPT !.config.slow_mode = slow,
                  !.config.frame_lock = IF slow THEN <<30>> ELSE <<>>,
                  !.config.particle_density = IF slow THEN 50 ELSE 100]

\* (mutant) the overlay is toggled and the config is left as it was
InputApply_OverlayNotPersisted(action, st) ==
    CASE action = "TogglePlayback" -> [st EXCEPT !.player = PlayerTogglePlayback(@)]
      [] action = "IncreaseSpeed" -> [st EXCEPT !.player = PlayerIncreaseSpeed(@)]
      [] action = "DecreaseSpeed" -> [st EXCEPT !.player = PlayerDecreaseSpeed(@)]
      [] action = "ToggleOverlay" -> [st EXCEPT !.overlay = OverlayToggle(@)]
      [] action = "ToggleSlowMode" -> ApplyToggleSlowMode(st)
      [] action = "Reset" -> [st EXCEPT !.player = PlayerReset(@)]
      [] OTHER -> st

\* (mutant) slow mode sets its flag and the frame lock, not the density
InputApply_SlowModeKeepsDensity(action, st) ==
    CASE action = "TogglePlayback" -> [st EXCEPT !.player = PlayerTogglePlayback(@)]
      [] action = "IncreaseSpeed" -> [st EXCEPT !.player = PlayerIncreaseSpeed(@)]
      [] action = "DecreaseSpeed" -> [st EXCEPT !.player = PlayerDecreaseSpeed(@)]
      [] action = "ToggleOverlay" -> ApplyToggleOverlay(st)
      [] action = "ToggleSlowMode" ->
             [st EXCEPT !.config.slow_mode = ~@,
                        !.config.frame_lock = IF st.config.slow_mode THEN <<>>
                                              ELSE <<30>>]
      [] action = "Reset" -> [st EXCEPT !.player = PlayerReset(@)]
      [] OTHER -> st

\* InputHandler::apply_action
InputApply(action, st) ==
    CASE action = "TogglePlayback" -> [st EXCEPT !.player = PlayerTogglePlayback(@)]
      [] action = "IncreaseSpeed" -> [st EXCEPT !.player = PlayerIncreaseSpeed(@)]
      [] action = "DecreaseSpeed" -> [st EXCEPT !.player = PlayerDecreaseSpeed(@)]
      [] action = "ToggleOverlay" -> ApplyToggleOverlay(st)
      [] action = "ToggleSlowMode" -> ApplyToggleSlowMode(st)
      [] action = "Reset" -> [st EXCEPT !.player = PlayerReset(@)]
      [] OTHER -> st

\* (mutant) the play button starts the playback and never pauses it
ButtonApply_PlayOnly(action, st) ==
    CASE action = "PlayPause" -> [st EXCEPT !.player = PlayerPlay(@)]
      [] action = "Reset" -> [st EXCEPT !.player = PlayerReset(@)]
      [] action = "IncreaseSpeed" -> [st EXCEPT !.player = PlayerIncreaseSpeed(@)]
      [] action = "DecreaseSpeed" -> [st EXCEPT !.player = PlayerDecreaseSpeed(@)]
      [] action = "ToggleSlowMode" -> ApplyToggleSlowMode(st)
      [] action = "ToggleOverlay" -> ApplyToggleOverlay(st)

\* UIControls::apply_action
ButtonApply(action, st) ==
    CASE action = "PlayPause" -> [st EXCEPT !.player = PlayerTogglePlayback(@)]
      [] action = "Reset" -> [st EXCEPT !.player = PlayerReset(@)]
      [] action = "IncreaseSpeed" -> [st EXCEPT !.player = PlayerIncreaseSpeed(@)]
      [] action = "DecreaseSpeed" -> [st EXCEPT !.player = PlayerDecreaseSpeed(@)]
      [] action = "ToggleSlowMode" -> ApplyToggleSlowMode(st)
      [] action = "ToggleOverlay" -> ApplyToggleOverlay(st)

\* config.performance.frame_lock.unwrap_or(config.display.target_fps)
FrameFps(config) ==
    IF config.frame_lock = <<>> THEN config.target_fps ELSE config.frame_lock[1]

\* Duration::from_secs_f64(1.0 / fps as f64), in microseconds
FrameTarget(config) == 1000000 \div FrameFps(config)

----------------------------------------------------------------------------
VARIABLES
    pc,                 \* position in parse_file / parse_bytes
    profile,            \* input family of this run
    source,             \* what the file at `path` is
    timing,             \* smf.header.timing
    min_note_duration,  \* MidiParser::min_note_duration
    tracks,             \* smf.tracks
    track_idx,          \* index of the track being parsed (1-based)
    ev_idx,             \* index of the next event of the second pass
    tempo_map,          \* parse_track: tempo_map
    current_tick,       \* parse_track: current_tick
    active_notes,       \* parse_track: active_notes
    notes,              \* parse_track: notes
    all_notes,          \* parse_bytes: all_notes, before the sort
    result,             \* the Vec<Note> returned in Ok
    outcome,            \* "none", "Ok", "IoError", "MidiError", "panic"
    note_list,          \* a note list of the application
    player,             \* the MidiPlayer of the application
    call,               \* the last call on note_list or player: op, arg, ret
                        \* (of the application: the load_midi_file of the
                        \* last step, NoCall when the step made none)
    app_pc,             \* main: "start", "running", "exited", "crashed"
    overlay,            \* the PerformanceOverlay of the application
    config,             \* the AppConfig of the application
    slow_toggled        \* history: a ToggleSlowMode has been applied

vars == <<pc, profile, source, timing, min_note_duration, tracks, track_idx, ev_idx,
          tempo_map, current_tick, active_notes, notes, all_notes, result,
          outcome, note_list, player, call, app_pc, overlay, config, slow_toggled>>

ui_vars == <<app_pc, overlay, config, slow_toggled>>
app_vars == <<note_list, player, call, ui_vars>>

\* main has not begun: the default configuration and its overlay
UiIdle ==
    /\ app_pc = "start"
    /\ config = DefaultConfig
    /\ overlay = OverlayNew(DefaultConfig)
    /\ slow_toggled = FALSE

input_vars == <<profile, source, timing, min_note_duration>>
track_vars == <<track_idx, ev_idx, tempo_map, current_tick, active_notes, notes>>

ticks_per_beat == TicksPerBeat(timing)

RECURSIVE SumLen(_, _)
SumLen(ts, i) == IF i > Len(ts) THEN 0 ELSE Len(ts[i]) + SumLen(ts, i + 1)
NumEvents == SumLen(tracks, 1)

NoCall == [op |-> "none", arg |-> <<>>, ret |-> <<>>]

Init ==
    /\ pc = "read"
    /\ profile \in Profiles
    /\ source \in Sources(profile)
    /\ timing \in Timings(profile)
    /\ min_note_duration \in MinDurations(profile)
    /\ tracks = <<>>
    /\ track_idx = 0
    /\ ev_idx = 0
    /\ tempo_map = <<>>
    /\ current_tick = 0
    /\ active_notes = EmptyMap
    /\ notes = <<>>
    /\ all_notes = <<>>
    /\ result = <<>>
    /\ outcome = "none"
    /\ note_list = <<>>
    /\ player = NewPlayer
    /\ call = NoCall
    /\ UiIdle

\* parse_file: fs::read(path)? fails
ReadFail ==
    /\ pc = "read"
    /\ source = "unreadable"
    /\ pc' = "done"
    /\ outcome' = "IoError"
    /\ UNCHANGED <<input_vars, app_vars, tracks, track_vars, all_notes, result>>

\* parse_file: fs::read(path)? succeeds, parse_bytes starts decoding
ReadOk ==
    /\ pc = "read"
    /\ source # "unreadable"
    /\ pc' = "decode"
    /\ UNCHANGED <<input_vars, app_vars, tracks, track_vars, all_notes, result, outcome>>

\* Smf::parse: the decoder reads the header of one more track chunk
DecodeTrack ==
    /\ pc = "decode"
    /\ source # "not_smf"
    /\ Len(tracks) < MaxTracks
    /\ tracks' = Append(tracks, <<>>)
    /\ UNCHANGED <<pc, input_vars, app_vars, track_vars, all_notes, result, outcome>>

\* Smf::parse: the decoder reads one more event of the current track chunk
DecodeEvent ==
    /\ pc = "decode"
    /\ source # "not_smf"
    /\ Len(tracks) >= 1
    /\ NumEvents < MaxEvents
    /\ \E ev \in Alphabet(profile) :
          tracks' = [tracks EXCEPT ![Len(tracks)] = Append(@, ev)]
    /\ UNCHANGED <<pc, input_vars, app_vars, track_vars, all_notes, result, outcome>>

\* (mutant) a lazy decoder: the malformed chunk is met inside the track loop
DecodeFail_Lazy ==
    /\ pc \in {"decode", "tracks"}
    /\ source \in {"malformed", "not_smf"} \/ pc = "tracks"
    /\ pc' = "done"
    /\ outcome' = "MidiError"
    /\ UNCHANGED <<input_vars, app_vars, tracks, track_vars, all_notes, result>>

\* Smf::parse(data)? fails on a malformed chunk or event
DecodeFail ==
    /\ pc = "decode"
    /\ source \in {"malformed", "not_smf"}
    /\ pc' = "done"
    /\ outcome' = "MidiError"
    /\ UNCHANGED <<input_vars, app_vars, tracks, track_vars, all_notes, result>>

\* Smf::parse(data)? succeeds; all_notes = Vec::new(); the track loop starts
DecodeOk ==
    /\ pc = "decode"
    /\ source = "smf"
    /\ pc' = "tracks"
    /\ track_idx' = 1
    /\ all_notes' = <<>>
    /\ UNCHANGED <<input_vars, app_vars, tracks, ev_idx, tempo_map, current_tick,
                   active_notes, notes, result, outcome>>

\* (mutant) one tempo map for the whole file: a track's first pass goes on
\* from the map of the tracks before it
TrackBegin_SharedTempoMap ==
    /\ pc = "tracks"
    /\ track_idx <= Len(tracks)
    /\ notes' = <<>>
    /\ active_notes' = EmptyMap
    /\ tempo_map' = TempoPass(tracks[track_idx], 1, 0,
                              IF tempo_map = <<>> THEN <<<<0, DefaultTempo>>>>
                              ELSE tempo_map)
    /\ current_tick' = 0
    /\ ev_idx' = 1
    /\ pc' = "notes"
    /\ UNCHANGED <<input_vars, app_vars, tracks, track_idx, all_notes, result, outcome>>

\* parse_track begins: notes, active_notes, first pass (tempo map)
TrackBegin ==
    /\ pc = "tracks"
    /\ track_idx <= Len(tracks)
    /\ notes' = <<>>
    /\ active_notes' = EmptyMap
    /\ tempo_map' = BuildTempoMap(tracks[track_idx])
    /\ current_tick' = 0
    /\ ev_idx' = 1
    /\ pc' = "notes"
    /\ UNCHANGED <<input_vars, app_vars, tracks, track_idx, all_notes, result, outcome>>

\* parse_track: one iteration of the second pass
NoteStep ==
    /\ pc = "notes"
    /\ ev_idx <= Len(tracks[track_idx])
    /\ LET ev == tracks[track_idx][ev_idx]
           t  == current_tick + ev.delta
           st == PairEvent([active |-> active_notes, notes |-> notes], ev, t,
                           tempo_map, ticks_per_beat, min_note_duration)
       IN /\ current_tick' = t
          /\ active_notes' = st.active
          /\ notes' = st.notes
    /\ ev_idx' = ev_idx + 1
    /\ UNCHANGED <<pc, input_vars, app_vars, tracks, track_idx, tempo_map, all_notes,
                   result, outcome>>

\* parse_track: the unclosed notes are flushed, the track's notes are
\* appended to all_notes, the loop goes to the next track
Flush ==
    /\ pc = "notes"
    /\ ev_idx > Len(tracks[track_idx])
    /\ \E order \in IterationOrders(active_notes) :
          /\ notes' = notes \o FlushNotes(order, active_notes, tempo_map,
                                          ticks_per_beat)
          /\ all_notes' = all_notes \o notes'
    /\ active_notes' = EmptyMap
    /\ track_idx' = track_idx + 1
    /\ pc' = "tracks"
    /\ UNCHANGED <<input_vars, app_vars, tracks, ev_idx, tempo_map, current_tick,
                   result, outcome>>

\* parse_bytes: the sort and the return
SortAndReturn ==
    /\ pc = "tracks"
    /\ track_idx > Len(tracks)
    /\ pc' = "done"
    /\ IF SortPanics(all_notes)
       THEN /\ outcome' = "panic"
            /\ result' = result
       ELSE /\ outcome' = "Ok"
            /\ result' = SortNotes(all_notes)
    /\ UNCHANGED <<input_vars, app_vars, tracks, track_vars, all_notes>>

Next ==
    \/ ReadFail
    \/ ReadOk
    \/ DecodeTrack
    \/ DecodeEvent
    \/ DecodeFail
    \/ DecodeOk
    \/ TrackBegin
    \/ NoteStep
    \/ Flush
    \/ SortAndReturn

Spec == Init /\ [][Next]_vars

----------------------------------------------------------------------------
\* The note list: get_duration and is_visible applied to lists of notes.

MaxNotes == 3

\* the parser at rest
ParserIdle ==
    /\ pc = "read"
    /\ profile = "pair"
    /\ source = "smf"
    /\ timing = Metrical(480)
    /\ min_note_duration = DefaultMinDuration
    /\ tracks = <<>>
    /\ track_idx = 0
    /\ ev_idx = 0
    /\ tempo_map = <<>>
    /\ current_tick = 0
    /\ active_notes = EmptyMap
    /\ notes = <<>>
    /\ all_notes = <<>>
    /\ result = <<>>
    /\ outcome = "none"

parser_vars == <<pc, input_vars, tracks, track_vars, all_notes, result, outcome>>

\* the note of test_end_time and test_visibility
TestNote == NewNote(60, 100, 5000000, 1000000, 0)

\* notes as the data model has them: start_time >= 0, duration > 0
NotePool ==
    {TestNote,
     NewNote(72, 80, 0, UnclosedDuration, 0),
     NewNote(64, 90, 5500000, 2000000, 1),
     NewNote(60, 100, 6000000, 500000, 0)}

\* current_time and time_window of the renderer, in microseconds
CurrentTimes == {0, 3200000, 3300000, 5000000, 6300000, 6400000, 7500000, 20000000}
TimeWindows == {2000000, 5000000, 10000000}

InitNotes ==
    /\ ParserIdle
    /\ note_list = <<>>
    /\ player = NewPlayer
    /\ call = NoCall
    /\ UiIdle

\* Vec::push of one more note
PushNote ==
    /\ Len(note_list) < MaxNotes
    /\ \E n \in NotePool : note_list' = Append(note_list, n)
    /\ call' = NoCall
    /\ UNCHANGED <<parser_vars, ui_vars, player>>

\* MidiParser::get_duration(&note_list)
CallGetDuration ==
    /\ call' = [op |-> "get_duration", arg |-> <<>>, ret |-> GetDuration(note_list)]
    /\ UNCHANGED <<parser_vars, ui_vars, note_list, player>>

\* note_list[i].is_visible(current_time, time_window)
CallIsVisible ==
    /\ \E i \in DOMAIN note_list, current_time \in CurrentTimes, time_window \in TimeWindows :
          call' = [op |-> "is_visible",
                   arg |-> <<i, current_time, time_window>>,
                   ret |-> IsVisible(note_list[i], current_time, time_window)]
    /\ UNCHANGED <<parser_vars, ui_vars, note_list, player>>

NextNotes ==
    \/ PushNote
    \/ CallGetDuration
    \/ CallIsVisible

SpecNotes == InitNotes /\ [][NextNotes]_vars

----------------------------------------------------------------------------
\* The player: every operation of MidiPlayer, from a new player.

MaxTime == 300000

\* arguments of set_playback_speed, in hundredths
SpeedArgs == {NegInf, 0 - 100, 0, 45, 50, 125, 200, 205, 300, PosInf}
\* arguments of seek and update, in microseconds
SeekArgs == {0 - 1000000, 0, 100000}
DeltaTimes == {0, 100000}

InitPlayer ==
    /\ ParserIdle
    /\ note_list = <<>>
    /\ player = NewPlayer
    /\ call = NoCall
    /\ UiIdle

PlayerCall(op, arg, p) ==
    /\ player' = p
    /\ call' = [op |-> op, arg |-> arg, ret |-> <<>>]
    /\ UNCHANGED <<parser_vars, ui_vars, note_list>>

Play == PlayerCall("play", <<>>, PlayerPlay(player))
Pause == PlayerCall("pause", <<>>, PlayerPause(player))
TogglePlayback == PlayerCall("toggle_playback", <<>>, PlayerTogglePlayback(player))
SetPlaybackSpeed ==
    \E speed \in SpeedArgs :
        PlayerCall("set_playback_speed", <<speed>>, PlayerSetPlaybackSpeed(player, speed))
IncreaseSpeed == PlayerCall("increase_speed", <<>>, PlayerIncreaseSpeed(player))
DecreaseSpeed == PlayerCall("decrease_speed", <<>>, PlayerDecreaseSpeed(player))
Seek == \E time \in SeekArgs : PlayerCall("seek", <<time>>, PlayerSeek(player, time))
Reset == PlayerCall("reset", <<>>, PlayerReset(player))
Update ==
    /\ player.current_time < MaxTime
    /\ \E delta_time \in DeltaTimes :
          PlayerCall("update", <<delta_time>>, PlayerUpdate(player, delta_time))

NextPlayer ==
    \/ Play
    \/ Pause
    \/ TogglePlayback
    \/ SetPlaybackSpeed
    \/ IncreaseSpeed
    \/ DecreaseSpeed
    \/ Seek
    \/ Reset
    \/ Update

SpecPlayer == InitPlayer /\ [][NextPlayer]_vars

----------------------------------------------------------------------------
\* The application: main's event loop over player, notes, overlay and config.

\* frames are taken while current_time is below this many microseconds
MaxPlayed == 1

\* files a path may lead to
File(name, src, tm, trks) ==
    [name |-> name, source |-> src, timing |-> tm, tracks |-> trks]

Files ==
    {File("pair", "smf", Metrical(480),
          <<<<NoteOn(0, 60, 0, 100), NoteOff(480, 60, 0, 64)>>>>),
     File("unclosed", "smf", Metrical(480),
          <<<<NoteOn(480, 72, 0, 100)>>, <<NoteOn(0, 60, 1, 64)>>>>),
     File("no_tracks", "smf", Metrical(480), <<>>),
     File("zero_tpb", "smf", Metrical(0),
          <<<<NoteOn(0, 72, 0, 100)>>, <<NoteOn(0, 72, 0, 100)>>>>),
     File("malformed", "malformed", Metrical(480), <<>>),
     File("missing", "unreadable", Metrical(480), <<>>)}

\* the end of a dropped path; "" stands for a path that is not UTF-8
Extensions == {".mid", ".midi", ".txt", ""}

\* MidiParser::new().parse_file(path): what it may give
ParseFile(f) ==
    IF f.source = "unreadable" THEN {[outcome |-> "IoError", notes |-> <<>>]}
    ELSE IF f.source # "smf" THEN {[outcome |-> "MidiError", notes |-> <<>>]}
    ELSE PossibleReturns(f.tracks, TicksPerBeat(f.timing), DefaultMinDuration)

\* the configurations config.json may hold
InitialConfigs ==
    {DefaultConfig, SlowModeConfig, PerformanceModeConfig,
     [DefaultConfig EXCEPT !.enable_performance_overlay = TRUE],
     [DefaultConfig EXCEPT !.slow_mode = TRUE]}

InitApp ==
    /\ ParserIdle
    /\ note_list = <<>>
    /\ player = NewPlayer
    /\ call = NoCall
    /\ app_pc = "start"
    /\ config \in InitialConfigs
    /\ overlay = OverlayNew(config)
    /\ slow_toggled = FALSE

AppState == [player |-> player, overlay |-> overlay, config |-> config]

SetAppState(st) ==
    /\ player' = st.player
    /\ overlay' = st.overlay
    /\ config' = st.config

\* (mutant) the old notes are dropped before the file is parsed
LoadMidiFile_ClearsFirst(f) ==
    \E r \in ParseFile(f) :
        /\ call' = [op |-> "load_midi_file", arg |-> <<f.name>>, ret |-> r.outcome]
        /\ app_pc' = IF r.outcome = "panic" THEN "crashed" ELSE "running"
        /\ IF r.outcome = "Ok"
           THEN /\ note_list' = r.notes
                /\ player' = PlayerReset(player)
           ELSE /\ note_list' = <<>>
                /\ player' = player

\* load_midi_file(path, &mut notes, &mut player); a panic of the parser ends
\* the process
LoadMidiFile(f) ==
    \E r \in ParseFile(f) :
        /\ call' = [op |-> "load_midi_file", arg |-> <<f.name>>, ret |-> r.outcome]
        /\ app_pc' = IF r.outcome = "panic" THEN "crashed" ELSE "running"
        /\ IF r.outcome = "Ok"
           THEN /\ note_list' = r.notes
                /\ player' = PlayerReset(player)
           ELSE UNCHANGED <<note_list, player>>

\* main up to the event loop: the file of the command line, if any, is loaded
Startup ==
    /\ app_pc = "start"
    /\ \/ \E f \in Files : LoadMidiFile(f)
       \/ /\ app_pc' = "running"
          /\ call' = NoCall
          /\ UNCHANGED <<note_list, player>>
    /\ UNCHANGED <<parser_vars, overlay, config, slow_toggled>>

\* InputAction::FileDropped(path)
FileDropped ==
    /\ app_pc = "running"
    /\ \E ext \in Extensions :
          IF ext \in {".mid", ".midi"}
          THEN \E f \in Files : LoadMidiFile(f)
          ELSE /\ call' = NoCall
               /\ UNCHANGED <<note_list, player, app_pc>>
    /\ UNCHANGED <<parser_vars, overlay, config, slow_toggled>>

\* the actions main hands to InputHandler::apply_action
AppliedInputs ==
    {"None", "TogglePlayback", "IncreaseSpeed", "DecreaseSpeed", "ToggleOverlay",
     "ToggleSlowMode", "Reset"}

\* ButtonAction
ButtonActions ==
    {"PlayPause", "Reset", "IncreaseSpeed", "DecreaseSpeed", "ToggleSlowMode",
     "ToggleOverlay"}

\* _ => InputHandler::apply_action(&action, ..)
ApplyInput ==
    /\ app_pc = "running"
    /\ \E action \in AppliedInputs :
          /\ SetAppState(InputApply(action, AppState))
          /\ slow_toggled' = (slow_toggled \/ action = "ToggleSlowMode")
    /\ call' = NoCall
    /\ UNCHANGED <<parser_vars, note_list, app_pc>>

\* InputAction::MouseClicked: a click on a button applies its action
MouseClicked ==
    /\ app_pc = "running"
    /\ \/ \E action \in ButtonActions :
             /\ SetAppState(ButtonApply(action, AppState))
             /\ slow_toggled' = (slow_toggled \/ action = "ToggleSlowMode")
       \/ UNCHANGED <<player, overlay, config, slow_toggled>>
    /\ call' = NoCall
    /\ UNCHANGED <<parser_vars, note_list, app_pc>>

\* InputAction::Resize, ToggleFullscreen, OpenFile, MouseMoved: window and
\* pointer only
WindowInput ==
    /\ app_pc = "running"
    /\ call' = NoCall
    /\ UNCHANGED <<parser_vars, note_list, player, ui_vars>>

\* InputAction::Quit: the config is saved and the loop exits
Quit ==
    /\ app_pc = "running"
    /\ app_pc' = "exited"
    /\ call' = NoCall
    /\ UNCHANGED <<parser_vars, note_list, player, overlay, config, slow_toggled>>

\* WindowEvent::RedrawRequested with a frame due: player.update(target)
Frame ==
    /\ app_pc = "running"
    /\ player.current_time < MaxPlayed
    /\ player' = PlayerUpdate(player, FrameTarget(config))
    /\ call' = NoCall
    /\ UNCHANGED <<parser_vars, ui_vars, note_list>>

NextApp ==
    \/ Startup
    \/ FileDropped
    \/ ApplyInput
    \/ MouseClicked
    \/ WindowInput
    \/ Quit
    \/ Frame

SpecApp == InitApp /\ [][NextApp]_vars

----------------------------------------------------------------------------
\* Vocabulary of the properties, read off the input alone.

CurTrack == tracks[track_idx]
AtEvent == pc = "notes" /\ ev_idx <= Len(CurTrack)
AtTrackEnd == pc = "notes" /\ ev_idx > Len(CurTrack)
CurEv == CurTrack[ev_idx]

KeyOf(ev) == <<ev.pitch, ev.channel>>
IsOpening(ev) == ev.kind = "NoteOn" /\ ev.vel > 0
IsClosing(ev) == ev.kind = "NoteOff" \/ (ev.kind = "NoteOn" /\ ev.vel = 0)

\* absolute tick of event i of a track: the sum of the deltas up to it
RECURSIVE AbsTick(_, _)
AbsTick(track, i) == IF i = 0 THEN 0 ELSE AbsTick(track, i - 1) + track[i].delta

\* The note-on that a close (or the end of the track) at position i pairs
\* with: the latest opening event of the key before i with no closing event
\* of the key after it; 0 when the key is Idle at i.
RECURSIVE LastOpen(_, _, _)
LastOpen(track, i, key) ==
    IF i <= 1 THEN 0
    ELSE LET ev == track[i - 1]
         IN IF KeyOf(ev) = key /\ IsOpening(ev) THEN i - 1
            ELSE IF KeyOf(ev) = key /\ IsClosing(ev) THEN 0
            ELSE LastOpen(track, i - 1, key)

Seconds(track, tick) ==
    TicksToSeconds(tick, BuildTempoMap(track), ticks_per_beat)

\* the Note the spec asks for the pair (opening event j, close at tick e)
PairedNote(track, j, e) ==
    NewNote(track[j].pitch, track[j].vel,
            Seconds(track, AbsTick(track, j)),
            FSub(Seconds(track, e), Seconds(track, AbsTick(track, j))),
            track[j].channel)

ExampleTrack == <<NoteOn(0, 60, 0, 100), NoteOff(480, 60, 0, 64)>>

\* C1: a note-on with velocity > 0 followed by a closing event of the same
\* key, with no other note-on of the key in between, yields exactly one Note
\* with the key's pitch and channel, the velocity of the opening note-on,
\* start_time = ticksToSeconds(s) and duration = ticksToSeconds(e) -
\* ticksToSeconds(s), whenever that duration is at least the minimum
\* duration; the spec's example (NoteOn 60 at tick 0, NoteOff at tick 480,
\* 480 ticks per beat) returns exactly Note{60, 100, 0.0, 0.5, channel 0}.
C1_PairYieldsNote ==
    [][ /\ (AtEvent /\ IsClosing(CurEv)
            /\ LastOpen(CurTrack, ev_idx, KeyOf(CurEv)) # 0)
           => LET j == LastOpen(CurTrack, ev_idx, KeyOf(CurEv))
                  n == PairedNote(CurTrack, j, AbsTick(CurTrack, ev_idx))
              IN FGe(n.duration, min_note_duration)
                    => notes' = Append(notes, n)
        /\ (outcome' = "Ok" /\ tracks = <<ExampleTrack>>
            /\ timing = Metrical(480) /\ min_note_duration = DefaultMinDuration)
           => result' = <<NewNote(60, 100, 0, 500000, 0)>>
      ]_vars

\* C1 witness: the spec's example has been parsed and returned its one note.
C1_Witness ==
    /\ outcome = "Ok"
    /\ tracks = <<ExampleTrack>>
    /\ result = <<NewNote(60, 100, 0, 500000, 0)>>

TrackKeys(track) == {KeyOf(track[i]) : i \in DOMAIN track}
\* the keys that are Active at the end of the track
StillActive(track) ==
    {k \in TrackKeys(track) : LastOpen(track, Len(track) + 1, k) # 0}

\* the Note the spec asks for a key still Active at the end of the track
FlushedNote(track, k) ==
    LET j == LastOpen(track, Len(track) + 1, k)
    IN NewNote(k[1], track[j].vel, Seconds(track, AbsTick(track, j)), 100000, k[2])

\* C2: at the end of a track every key still Active is emitted as exactly one
\* Note with start_time = ticksToSeconds(startTick), the velocity of its last
\* opening note-on and duration exactly 0.1 s; no Active key is dropped, no
\* Idle key is flushed, and the notes already emitted stay in front.
C2_UnclosedFlushed ==
    [][ AtTrackEnd =>
          /\ Len(notes') = Len(notes) + Cardinality(StillActive(CurTrack))
          /\ SubSeq(notes', 1, Len(notes)) = notes
          /\ {notes'[i] : i \in (Len(notes) + 1)..Len(notes')}
                = {FlushedNote(CurTrack, k) : k \in StillActive(CurTrack)}
      ]_vars

\* C2 witness: a track that is one unmatched NoteOn(72) at tick 480 has been
\* flushed into one note of 0.1 s.
C2_Witness ==
    /\ pc = "tracks"
    /\ track_idx = 2
    /\ tracks[1] = <<NoteOn(480, 72, 0, 100)>>
    /\ timing = Metrical(480)
    /\ notes = <<NewNote(72, 100, 500000, 100000, 0)>>

ShortPairTrack ==
    <<NoteOn(0, 60, 0, 100), NoteOff(0, 60, 0, 64), NoteOff(480, 60, 0, 64)>>

\* C3: a pair whose duration is below the minimum duration adds no Note, and
\* its closing event still returns the key to Idle; a later second close and
\* the end of the track emit nothing for it (the track NoteOn, NoteOff at the
\* same tick, NoteOff returns no note).
C3_ShortPairDiscarded ==
    [][ /\ (AtEvent /\ IsClosing(CurEv)
            /\ LastOpen(CurTrack, ev_idx, KeyOf(CurEv)) # 0)
           => LET j == LastOpen(CurTrack, ev_idx, KeyOf(CurEv))
                  n == PairedNote(CurTrack, j, AbsTick(CurTrack, ev_idx))
              IN ~FGe(n.duration, min_note_duration)
                    => /\ notes' = notes
                       /\ KeyOf(CurEv) \notin DOMAIN active_notes'
        /\ (outcome' = "Ok" /\ tracks = <<ShortPairTrack>>)
           => result' = <<>>
      ]_vars

\* C3 witness: with a minimum duration of 0.5 s, a pair of 0.25 s (480 ticks
\* at 250000 microseconds per beat) has just been closed and discarded.
C3_Witness ==
    /\ pc = "notes"
    /\ ev_idx = 4
    /\ min_note_duration = 500000
    /\ timing = Metrical(480)
    /\ CurTrack = <<Tempo(0, 250000), NoteOn(0, 72, 0, 100), NoteOff(480, 72, 0, 64)>>
    /\ notes = <<>>
    /\ DOMAIN active_notes = {}

\* a closing event as the other kind of closing event
SwapClose(ev) ==
    IF ev.kind = "NoteOff" THEN NoteOn(ev.delta, ev.pitch, ev.channel, 0)
    ELSE IF ev.kind = "NoteOn" /\ ev.vel = 0
         THEN NoteOff(ev.delta, ev.pitch, ev.channel, 0)
         ELSE ev

SwapAt(track, S) ==
    [i \in DOMAIN track |-> IF i \in S THEN SwapClose(track[i]) ELSE track[i]]

\* C4: a NoteOn with velocity 0 closes like a NoteOff: at every point of the
\* second pass, the notes emitted and the active table are those the pairer
\* gives on the track with any set of its closing events replaced by the
\* other kind of closing event, and the Active keys are exactly those opened
\* by a note-on with velocity > 0.
C4_ZeroVelocityIsNoteOff ==
    pc = "notes" =>
        /\ \A S \in SUBSET {i \in 1..(ev_idx - 1) : IsClosing(CurTrack[i])} :
              PairPrefix(SwapAt(CurTrack, S), ev_idx - 1, ticks_per_beat,
                         min_note_duration)
                 = [active |-> active_notes, notes |-> notes]
        /\ DOMAIN active_notes
              = {k \in TrackKeys(CurTrack) : LastOpen(CurTrack, ev_idx, k) # 0}

\* C4 witness: a NoteOn with velocity 0 has just closed an Active key and the
\* note was emitted.
C4_Witness ==
    /\ pc = "notes"
    /\ ev_idx = 3
    /\ IsOpening(CurTrack[1])
    /\ CurTrack[2].kind = "NoteOn" /\ CurTrack[2].vel = 0
    /\ KeyOf(CurTrack[2]) = KeyOf(CurTrack[1])
    /\ Len(notes) = 1
    /\ DOMAIN active_notes = {}

\* an opening event whose entry is overwritten by a later note-on of the key
Overwritten(track, j) ==
    \E j2 \in DOMAIN track :
        /\ j2 > j
        /\ IsOpening(track[j2])
        /\ KeyOf(track[j2]) = KeyOf(track[j])
        /\ LastOpen(track, j2, KeyOf(track[j])) = j

EffectiveOpenings(track) ==
    {j \in DOMAIN track : IsOpening(track[j]) /\ ~Overwritten(track, j)}

RetriggerTrack ==
    <<NoteOn(0, 60, 0, 100), NoteOn(480, 60, 0, 64), NoteOff(480, 60, 0, 64)>>

\* C5: last note-on wins: a note-on with velocity > 0 for an Active key
\* overwrites the stored start tick and velocity and emits nothing; the notes
\* of a track all start at a note-on that was not overwritten and there are
\* no more of them than such note-ons; NoteOn(v 100) at tick 0, NoteOn(v 64)
\* at tick 480, NoteOff at tick 960 returns the one note {64, 0.5 s, 0.5 s}.
C5_LastNoteOnWins ==
    [][ /\ (AtEvent /\ IsOpening(CurEv)
            /\ LastOpen(CurTrack, ev_idx, KeyOf(CurEv)) # 0)
           => /\ notes' = notes
              /\ DOMAIN active_notes' = DOMAIN active_notes
              /\ active_notes' =
                    [active_notes EXCEPT ![KeyOf(CurEv)] =
                        <<AbsTick(CurTrack, ev_idx), CurEv.vel>>]
        /\ AtTrackEnd
           => /\ Len(notes') <= Cardinality(EffectiveOpenings(CurTrack))
              /\ \A i \in DOMAIN notes' :
                    \E j \in EffectiveOpenings(CurTrack) :
                        /\ notes'[i].pitch = CurTrack[j].pitch
                        /\ notes'[i].channel = CurTrack[j].channel
                        /\ notes'[i].velocity = CurTrack[j].vel
                        /\ notes'[i].start_time
                              = Seconds(CurTrack, AbsTick(CurTrack, j))
        /\ (outcome' = "Ok" /\ tracks = <<RetriggerTrack>>)
           => result' = <<NewNote(60, 64, 500000, 500000, 0)>>
      ]_vars

\* C5 witness: the second note-on of the key has overwritten the entry of the
\* first, and the parse returned the note of the second.
C5_Witness ==
    /\ outcome = "Ok"
    /\ tracks = <<RetriggerTrack>>
    /\ result = <<NewNote(60, 64, 500000, 500000, 0)>>

\* C6: a closing event for a key with no Active entry is discarded: it emits
\* no Note, raises no error and leaves the active table and the notes
\* emitted so far unchanged.
C6_OrphanCloseDiscarded ==
    [][ (AtEvent /\ IsClosing(CurEv)
         /\ LastOpen(CurTrack, ev_idx, KeyOf(CurEv)) = 0)
        => /\ active_notes' = active_notes
           /\ notes' = notes
           /\ all_notes' = all_notes
           /\ outcome' = "none"
           /\ pc' = "notes"
      ]_vars

\* C6 witness: after a pair was emitted, a second close of the same key has
\* been processed and the one note is still the only one.
C6_Witness ==
    /\ pc = "notes"
    /\ ev_idx = 4
    /\ IsOpening(CurTrack[1])
    /\ IsClosing(CurTrack[2]) /\ KeyOf(CurTrack[2]) = KeyOf(CurTrack[1])
    /\ IsClosing(CurTrack[3]) /\ KeyOf(CurTrack[3]) = KeyOf(CurTrack[1])
    /\ Len(notes) = 1
    /\ all_notes = <<>>

\* C7: the note sequence returned by parse_bytes is ordered by start time:
\* for all positions i < j, notes[i].start_time <= notes[j].start_time.
C7_SortedByStart ==
    outcome = "Ok" =>
        \A i, j \in DOMAIN result :
            i < j => FGe(result[j].start_time, result[i].start_time)

\* C7 witness: two tracks were merged and the sort had to move a note of the
\* second track in front of a note of the first.
C7_Witness ==
    /\ outcome = "Ok"
    /\ Len(tracks) = 2
    /\ Len(result) >= 2
    /\ result # all_notes
    /\ result[1].start_time # result[Len(result)].start_time

\* the notes of s that start at t, in their order in s
SameStart(s, t) == SelectSeq(s, LAMBDA n : n.start_time = t)

\* C8: the result is a permutation of the concatenation of the tracks' note
\* lists, in track order, and notes of equal start_time keep the order they
\* have in that concatenation (track order, then emission order).
C8_StablePermutation ==
    [][ /\ AtTrackEnd => all_notes' = all_notes \o notes'
        /\ outcome' = "Ok"
           => /\ Len(result') = Len(all_notes')
              /\ \A i \in DOMAIN all_notes' :
                    SameStart(result', all_notes'[i].start_time)
                       = SameStart(all_notes', all_notes'[i].start_time)
      ]_vars

\* C8 witness: two tracks each gave a note starting at 0.0; the note of the
\* first track comes first, behind them nothing was lost.
C8_Witness ==
    /\ outcome = "Ok"
    /\ tracks = << <<NoteOn(0, 72, 1, 64)>>, <<NoteOn(0, 60, 0, 100)>> >>
    /\ result = <<NewNote(72, 64, 0, 100000, 1), NewNote(60, 100, 0, 100000, 0)>>

\* C9: parsing is deterministic: for identical input and the same minimum
\* duration every run of parse_bytes returns the same note sequence, element
\* for element and in the same order.
C9_Deterministic ==
    (pc = "done" /\ outcome \in {"Ok", "panic"}) =>
        PossibleReturns(tracks, ticks_per_beat, min_note_duration)
           = {[outcome |-> outcome, notes |-> result]}

\* C10: a failed parse returns no notes: when reading the file or decoding
\* the container fails, the outcome is the error alone, no track has been
\* processed and no note list has been built.
C10_FailedParseNoNotes ==
    [][ /\ (pc \in {"read", "decode"} /\ pc' = "done")
           => outcome' \in {"IoError", "MidiError"}
        /\ outcome' \in {"IoError", "MidiError"}
           => /\ pc' = "done"
              /\ result' = <<>>
              /\ all_notes' = <<>>
              /\ notes' = <<>>
              /\ track_idx' = 0
              /\ pc \in {"read", "decode", "done"}
      ]_vars

\* C10 witness: the decoder failed after it had read a track with events,
\* and the call returned the error and no note.
C10_Witness ==
    /\ outcome = "MidiError"
    /\ NumEvents >= 2
    /\ \E i \in DOMAIN tracks : \E j \in DOMAIN tracks[i] : IsOpening(tracks[i][j])
    /\ result = <<>>

\* the positions of the run and the returns of the functional form agree
TypeOK ==
    /\ pc \in {"read", "decode", "tracks", "notes", "done"}
    /\ outcome \in {"none", "Ok", "IoError", "MidiError", "panic"}
    /\ (outcome \in {"Ok", "panic"})
          => [outcome |-> outcome, notes |-> result]
                \in PossibleReturns(tracks, ticks_per_beat, min_note_duration)
    /\ pc = "notes"
          => /\ tempo_map = BuildTempoMap(CurTrack)
             /\ current_tick = AbsTick(CurTrack, ev_idx - 1)

\* C11: every parse failure is one tagged error whose kind tells the cause:
\* an unreadable source gives IoError, a malformed chunk or event gives
\* MidiError, bytes that are no Standard MIDI File at all give InvalidFile.
C11_ErrorKindTellsCause ==
    pc = "done" =>
        /\ source = "unreadable" => outcome = "IoError"
        /\ source = "malformed" => outcome = "MidiError"
        /\ source = "not_smf" => outcome = "InvalidFile"

\* Beats whose ticks the properties of the Tick Clock look at.
MaxBeats == 3

\* C12: ticksToSeconds(0) == 0 for every tempo map and every ticks-per-beat
\* resolution the header can declare.
C12_ZeroTickIsZero ==
    pc = "notes" => TicksToSeconds(0, tempo_map, ticks_per_beat) = 0

\* C13: ticksToSeconds is monotonic non-decreasing in the tick: for every
\* tempo map built from a track and all ticks a <= b,
\* ticksToSeconds(a) <= ticksToSeconds(b).
C13_Monotonic ==
    pc = "notes" =>
        \A a, b \in {480 * k : k \in 0..MaxBeats} :
            a <= b => FGe(TicksToSeconds(b, tempo_map, ticks_per_beat),
                          TicksToSeconds(a, tempo_map, ticks_per_beat))

\* the tempo events of a track, by position
TempoEvents(track) == {i \in DOMAIN track : track[i].kind = "Tempo"}

\* the tempo in effect at tick x: that of the latest tempo event of the track
\* whose tick does not exceed x, the default tempo when there is none
TempoInEffect(track, x) ==
    LET before == {i \in TempoEvents(track) : AbsTick(track, i) <= x}
    IN IF before = {} THEN 500000
       ELSE track[CHOOSE i \in before : \A j \in before : j <= i].tempo

\* a track whose tempo never changes after tick 0
ConstantTempo(track) == \A i \in TempoEvents(track) : AbsTick(track, i) = 0

\* the clock of the current track on beats, when its tempo is constant
ConstantTempoClock ==
    (ticks_per_beat > 0 /\ ConstantTempo(CurTrack)) =>
        /\ \A n \in 0..MaxBeats :
              TicksToSeconds(n * ticks_per_beat, tempo_map, ticks_per_beat)
                 = n * TempoInEffect(CurTrack, 0)
        /\ (TempoEvents(CurTrack) = {} /\ ticks_per_beat = 480)
              => TicksToSeconds(480, tempo_map, ticks_per_beat) = 500000

\* C14: under a constant tempo of T microseconds per beat and P > 0 ticks per
\* beat, ticksToSeconds(n * P) is n * T microseconds for every n >= 0; with
\* P = 480 and the default tempo, ticksToSeconds(480) is 0.5 s.  Stated of
\* the tempo map of every track when the first pass has built it.
C14_ConstantTempo == [][TrackBegin => ConstantTempoClock']_vars

\* C14 witness: a track that sets 250000 microseconds per beat at tick 0 has
\* paired a note from beat 1 to beat 2: it starts at 0.25 s and lasts 0.25 s.
C14_Witness ==
    /\ pc = "notes"
    /\ ticks_per_beat = 480
    /\ CurTrack = <<Tempo(0, 250000), NoteOn(480, 60, 0, 100), NoteOff(480, 60, 0, 64)>>
    /\ notes = <<NewNote(60, 100, 250000, 250000, 0)>>

\* the seconds (in microseconds) of the first n beats of a track: each beat
\* lasts the tempo in effect at its first tick
RECURSIVE BeatSum(_, _, _)
BeatSum(track, n, tpb) ==
    IF n = 0 THEN 0
    ELSE BeatSum(track, n - 1, tpb) + TempoInEffect(track, (n - 1) * tpb)

\* C15: ticksToSeconds(t) is the sum over the tempo-map segments up to t of
\* (ticks / ticksPerBeat) * (tempo / 1,000,000), the last one clipped at t;
\* the tempo in effect at a tick is that of the latest entry not after it, so
\* of several tempo events at one tick the last counts, and a tempo event
\* after t does not change ticksToSeconds(t).  (P > 0; tempo changes on
\* beats.)
C15_SegmentSum ==
    [][TrackBegin =>
         (ticks_per_beat > 0 =>
             \A n \in 0..MaxBeats :
                 TicksToSeconds(n * ticks_per_beat, tempo_map', ticks_per_beat)
                    = BeatSum(CurTrack, n, ticks_per_beat))]_vars

\* C15 witness: two tempo events share tick 480 (250000, then 125000); the
\* note-on one beat later starts at 0.5 s + 0.125 s.
C15_Witness ==
    /\ pc = "tracks"
    /\ track_idx = 2
    /\ ticks_per_beat = 480
    /\ tracks[1] = <<Tempo(480, 250000), Tempo(0, 125000), NoteOn(480, 60, 0, 100)>>
    /\ notes = <<NewNote(60, 100, 625000, 100000, 0)>>

\* C16: every tempo map built for a track starts with the entry (tick 0,
\* 500000 microseconds per beat) and its ticks are non-decreasing.
C16_TempoMapShape ==
    [][TrackBegin =>
         /\ Len(tempo_map') >= 1
         /\ tempo_map'[1] = <<0, 500000>>
         /\ \A i \in 1..(Len(tempo_map') - 1) :
               tempo_map'[i][1] <= tempo_map'[i + 1][1]]_vars

\* C16 witness: a track with its own tempo event at tick 0 and a later one.
C16_Witness ==
    /\ pc = "notes"
    /\ Len(CurTrack) >= 2
    /\ CurTrack[1] = Tempo(0, 250000)
    /\ Len(tempo_map) = 3
    /\ tempo_map[2] = <<0, 250000>>
    /\ tempo_map[3][1] = 480

\* C17: every Note of a parse result has pitch in 0..127, channel in 0..15,
\* velocity in 0..127, start_time >= 0 and duration > 0, and its end_time is
\* start_time + duration.
C17_NoteRanges ==
    outcome = "Ok" =>
        \A i \in DOMAIN result :
            /\ result[i].pitch \in 0..127
            /\ result[i].channel \in 0..15
            /\ result[i].velocity \in 0..127
            /\ FGe(result[i].start_time, 0)
            /\ FGe(result[i].duration, 0) /\ result[i].duration # 0
            /\ EndTime(result[i]) = result[i].start_time + result[i].duration

\* with a resolution above 0 the clock starts at 0 and is monotonic, and the
\* notes returned are in the ranges of the data model
TickClockSound ==
    ticks_per_beat > 0 => C12_ZeroTickIsZero /\ C13_Monotonic /\ C17_NoteRanges

----------------------------------------------------------------------------
\* The note list reordered by a permutation f of its indices.
Reordered(ns, f) == [i \in DOMAIN ns |-> ns[f[i]]]

EndTimes(ns) == {EndTime(ns[i]) : i \in DOMAIN ns}

\* C18: get_duration returns the maximum end_time (start_time + duration) over
\* all notes of the list, and 0 when the list is empty; the result is the same
\* for every order of the notes.
C18_DurationIsMaxEnd ==
    call.op = "get_duration" =>
        /\ note_list = <<>> => call.ret = 0
        /\ note_list # <<>> =>
              /\ call.ret \in EndTimes(note_list)
              /\ \A e \in EndTimes(note_list) : e <= call.ret
        /\ \A f \in Permutations(DOMAIN note_list) :
              GetDuration(Reordered(note_list, f)) = call.ret

\* C18 witness: a list of three notes whose latest end is neither that of the
\* last note nor that of the note starting last
C18_Witness ==
    /\ call.op = "get_duration"
    /\ Len(note_list) = 3
    /\ note_list[1].start_time = 5500000
    /\ note_list[2].start_time = 6000000
    /\ note_list[3].start_time = 0
    /\ call.ret = 7500000

\* C19: is_visible(currentTime, timeWindow) is true if and only if
\* start_time <= currentTime + 0.85*timeWindow and
\* end_time >= currentTime - 0.15*timeWindow, both bounds included; the note
\* with start 5.0 and duration 1.0 is visible at 5.0 and at 0.0 with window
\* 10.0 and is not visible at 20.0.
C19_VisibleWindow ==
    call.op = "is_visible" =>
        LET n == note_list[call.arg[1]]
            currentTime == call.arg[2]
            timeWindow == call.arg[3]
        IN  /\ call.ret = TRUE <=>
                  /\ 20 * n.start_time <= 20 * currentTime + 17 * timeWindow
                  /\ 20 * (n.start_time + n.duration) >= 20 * currentTime - 3 * timeWindow
            /\ (n = TestNote /\ timeWindow = 10000000 /\ currentTime \in {0, 5000000})
                  => call.ret = TRUE
            /\ (n = TestNote /\ timeWindow = 10000000 /\ currentTime = 20000000)
                  => call.ret = FALSE

\* C19 witness: the note of test_visibility asked with its end_time on the
\* lower bound of the window and found visible
C19_Witness ==
    /\ call.op = "is_visible"
    /\ note_list[call.arg[1]] = TestNote
    /\ call.arg[2] = 6300000
    /\ call.arg[3] = 2000000
    /\ call.ret = TRUE

SpeedInRange ==
    /\ FGe(player.playback_speed, MinSpeed)
    /\ FGe(MaxSpeed, player.playback_speed)

----------------------------------------------------------------------------
\* the position of the k-th tempo event of a track
NthTempo(track, k) ==
    CHOOSE i \in TempoEvents(track) :
        Cardinality({j \in TempoEvents(track) : j <= i}) = k

\* C21: the tempo map of a track has one entry per tempo event after its
\* first entry, in the order of the events and without de-duplication, each at
\* the absolute tick that is the sum of the deltas of all events of the track
\* up to and including the tempo event (non-tempo events too); it has exactly
\* 1 + (number of tempo events) entries.
C21_OneEntryPerTempoEvent ==
    [][TrackBegin =>
         /\ Len(tempo_map') = 1 + Cardinality(TempoEvents(CurTrack))
         /\ \A k \in 1..Cardinality(TempoEvents(CurTrack)) :
               tempo_map'[k + 1] = <<AbsTick(CurTrack, NthTempo(CurTrack, k)),
                                     CurTrack[NthTempo(CurTrack, k)].tempo>>]_vars

\* C21 witness: the same tempo is set twice, with an event of another kind
\* and a delta of 480 between: the map has both entries, at ticks 480 and 960.
C21_Witness ==
    /\ pc = "notes"
    /\ CurTrack = <<Tempo(480, 250000), OtherMidi(480), Tempo(0, 250000)>>
    /\ tempo_map = <<<<0, 500000>>, <<480, 250000>>, <<960, 250000>>>>

IsOther(ev) == ev.kind \notin {"NoteOn", "NoteOff", "Tempo"}

\* C22: an event that is neither NoteOn/NoteOff nor Tempo is ignored without
\* error: the step over it changes neither the active-note table nor the
\* notes emitted nor the tempo map nor the outcome, and moves the absolute
\* tick by its delta.
C22_OtherEventsIgnored ==
    [][(NoteStep /\ IsOther(CurEv)) =>
          /\ active_notes' = active_notes
          /\ notes' = notes
          /\ tempo_map' = tempo_map
          /\ all_notes' = all_notes
          /\ outcome' = outcome
          /\ pc' = "notes"
          /\ current_tick' = current_tick + CurEv.delta]_vars

\* C22 witness: an event of another kind with delta 480 went by while a note
\* was open; the note is still open and the tick is at 480.
C22_Witness ==
    /\ pc = "notes"
    /\ ev_idx = 3
    /\ IsOpening(CurTrack[1])
    /\ CurTrack[1].delta = 0
    /\ IsOther(CurTrack[2])
    /\ DOMAIN active_notes = {KeyOf(CurTrack[1])}
    /\ current_tick = 480

\* C23: the notes of a track are those its own events, the resolution and the
\* minimum duration give: at the end of every track, the notes appended to
\* all_notes are notes the track would give were it the only track of the
\* file, whatever tempo events and open notes the tracks before it had, and
\* they are appended after the notes of the tracks before it.
C23_TracksIndependent ==
    [][Flush =>
         /\ notes' \in TrackOutcomes(CurTrack, ticks_per_beat, min_note_duration)
         /\ all_notes' = all_notes \o notes']_vars

\* C23 witness: the first track sets a tempo and leaves a note open, the
\* second track opens the same key one beat in: its note starts at 0.5 s,
\* the beat of the default tempo.
C23_Witness ==
    /\ pc = "tracks"
    /\ track_idx = 3
    /\ tracks = <<<<Tempo(0, 250000), NoteOn(480, 60, 0, 100)>>,
                  <<NoteOn(480, 60, 0, 100)>>>>
    /\ all_notes = <<NewNote(60, 100, 250000, 100000, 0),
                     NewNote(60, 100, 500000, 100000, 0)>>

\* C24: pairing is keyed by (pitch, channel): a closing event takes out of
\* the table the entry of its own pitch and channel and no other; the
\* entries of the same pitch on another channel and of another pitch on the
\* same channel stay as they are; the table has one entry per key at most
\* (its keys are the pairs (pitch, channel)), and a close emits at most one
\* note, of its own pitch and channel.
C24_KeyedByPitchAndChannel ==
    [][(NoteStep /\ IsClosing(CurEv)) =>
          /\ DOMAIN active_notes' = DOMAIN active_notes \ {KeyOf(CurEv)}
          /\ \A k \in DOMAIN active_notes' : active_notes'[k] = active_notes[k]
          /\ \/ notes' = notes
             \/ /\ KeyOf(CurEv) \in DOMAIN active_notes
                /\ Len(notes') = Len(notes) + 1
                /\ Front(notes') = notes
                /\ notes'[Len(notes')].pitch = CurEv.pitch
                /\ notes'[Len(notes')].channel = CurEv.channel]_vars

\* C24 witness: pitch 72 is open on channel 1; a note-off for pitch 72 on
\* channel 0 went by and the entry is still Active, no note emitted.
C24_Witness ==
    /\ pc = "notes"
    /\ ev_idx = 3
    /\ CurTrack[1] = NoteOn(0, 72, 1, 64)
    /\ CurTrack[2] = NoteOff(0, 72, 0, 64)
    /\ DOMAIN active_notes = {<<72, 1>>}
    /\ notes = <<>>

\* C25: for any minimum duration set with with_min_duration, every Note of the
\* parse result has duration >= that minimum, the notes closed by a note-off
\* and the notes flushed at the end of a track alike.
C25_MinDurationHolds ==
    outcome = "Ok" =>
        \A i \in DOMAIN result : FGe(result[i].duration, min_note_duration)

\* C25 as amended: every note emitted by a closing event has duration >= the
\* minimum duration; every note flushed at the end of a track has duration
\* 0.1 s whatever the minimum is; the result holds these notes only.
C25_MinDurationOfClosedNotes ==
    [][/\ NoteStep =>
             \A i \in (Len(notes) + 1)..Len(notes') :
                 FGe(notes'[i].duration, min_note_duration)
       /\ Flush =>
             \A i \in (Len(notes) + 1)..Len(notes') : notes'[i].duration = 100000
       /\ (SortAndReturn /\ outcome' = "Ok") =>
             \A i \in DOMAIN result' :
                 \/ FGe(result'[i].duration, min_note_duration)
                 \/ result'[i].duration = 100000]_vars

\* C25 witness: with a minimum of 0.5 s, a pair of 0.5 s was kept and an
\* unclosed note was flushed with 0.1 s.
C25_Witness ==
    /\ outcome = "Ok"
    /\ min_note_duration = 500000
    /\ Len(result) = 2
    /\ result[1].duration = 500000
    /\ result[2].duration = 100000

\* C26: parse_bytes returns Ok(notes) or a ParseError for every input the
\* decoder accepts, a header of zero ticks per beat included: the sort never
\* aborts the parse and every start_time returned is a comparable number.
C26_AlwaysReturns ==
    pc = "done" =>
        /\ outcome \in {"Ok", "IoError", "MidiError"}
        /\ \A i \in DOMAIN result : result[i].start_time # NaN

----------------------------------------------------------------------------
\* C27: load_midi_file is all-or-nothing: when the parse fails, the note list
\* and the player (current time, playing flag, speed) are left as they were;
\* when it succeeds, the note list is the parsed notes and nothing else, the
\* player is at time 0 and paused and its playback speed is kept.
C27_LoadAllOrNothing ==
    [][\A f \in {g \in Files : call'.op = "load_midi_file"
                                    /\ call'.arg = <<g.name>>} :
          LoadMidiFile(f) =>
             /\ call'.ret \in {"IoError", "MidiError"} =>
                   /\ note_list' = note_list
                   /\ player' = player
             /\ call'.ret = "Ok" =>
                   /\ [outcome |-> "Ok", notes |-> note_list'] \in ParseFile(f)
                   /\ player'.current_time = 0
                   /\ player'.is_playing = FALSE
                   /\ player'.playback_speed = player.playback_speed]_vars

\* C27 witness: a file that cannot be read was dropped while notes were
\* loaded and the player was running at another speed: all are still there.
C27_Witness ==
    /\ call.op = "load_midi_file"
    /\ call.ret = "IoError"
    /\ note_list # <<>>
    /\ player.is_playing
    /\ player.current_time > 0
    /\ player.playback_speed = 150

SlowFields(c) == <<c.slow_mode, c.frame_lock, c.particle_density>>

SlowConsistent(c) ==
    /\ c.slow_mode <=> (c.frame_lock = <<30>> /\ c.particle_density = 50)
    /\ (~c.slow_mode) <=> (c.frame_lock = <<>> /\ c.particle_density = 100)
    /\ FrameFps(c) = IF c.slow_mode THEN 30 ELSE c.target_fps

\* a step of ToggleSlowMode, from the keyboard or from its button
ToggleSlowModeStep ==
    /\ app_pc = "running"
    /\ \/ SetAppState(InputApply("ToggleSlowMode", AppState))
       \/ SetAppState(ButtonApply("ToggleSlowMode", AppState))

\* C28: after any sequence of input actions with at least one ToggleSlowMode,
\* slow_mode is true exactly when frame_lock is Some(30) and particle_density
\* is 0.5, and false exactly when frame_lock is None and particle_density is
\* 1.0, so that frames run at 30 FPS in slow mode and at target_fps
\* otherwise; no action other than ToggleSlowMode changes the three fields.
C28_SlowModeConsistent ==
    [][/\ slow_toggled' => SlowConsistent(config')
       /\ SlowFields(config') # SlowFields(config) => ToggleSlowModeStep]_vars

\* C28 witness: the configuration began as performance_mode_config (frame
\* lock 144); slow mode was toggled and is on, at 30 FPS.
C28_Witness ==
    /\ slow_toggled
    /\ config.effect_quality = "Ultra"
    /\ config.slow_mode
    /\ FrameFps(config) = 30
    /\ player.current_time = 33333

\* the keyboard action of a button
KeyFor(button) == IF button = "PlayPause" THEN "TogglePlayback" ELSE button

\* C29: a button and its keyboard shortcut are interchangeable: for each of
\* PlayPause/TogglePlayback, Reset, IncreaseSpeed, DecreaseSpeed,
\* ToggleSlowMode and ToggleOverlay and in every state of player, overlay and
\* config, UIControls::apply_action and InputHandler::apply_action give the
\* same state.
C29_ButtonIsShortcut ==
    app_pc = "running" =>
        \A button \in ButtonActions :
            ButtonApply(button, AppState) = InputApply(KeyFor(button), AppState)

\* C29 witness: a state in which each of the six actions changes something:
\* playing at time > 0, speed between the limits, overlay and slow mode on.
C29_Witness ==
    /\ app_pc = "running"
    /\ player.is_playing
    /\ player.current_time > 0
    /\ player.playback_speed = 110
    /\ overlay.visible
    /\ config.slow_mode

OverlaySynced == config.enable_performance_overlay = OverlayIsVisible(overlay)

\* a step of ToggleOverlay, from the keyboard or from its button
ToggleOverlayStep ==
    /\ app_pc = "running"
    /\ \/ SetAppState(InputApply("ToggleOverlay", AppState))
       \/ SetAppState(ButtonApply("ToggleOverlay", AppState))

\* C30: from an overlay created from the config and after any sequence of
\* keyboard and button actions, config.performance.enable_performance_overlay
\* equals overlay.is_visible(); each ToggleOverlay flips both and no other
\* action changes either.
C30_OverlayFlagTracksOverlay ==
    /\ OverlaySynced
    /\ [][/\ OverlaySynced'
          /\ ToggleOverlayStep =>
                /\ overlay'.visible = ~overlay.visible
                /\ config'.enable_performance_overlay
                      = ~config.enable_performance_overlay
          /\ (overlay' # overlay
                \/ config'.enable_performance_overlay
                      # config.enable_performance_overlay)
                => ToggleOverlayStep]_vars

\* C30 witness: the configuration began as performance_mode_config, overlay
\* off; the overlay is on and so is the flag.
C30_Witness ==
    /\ config.effect_quality = "Ultra"
    /\ overlay.visible
    /\ config.enable_performance_overlay
    /\ app_pc = "exited"

====
